---- MODULE Spec2Model ----
(***************************************************************************)
(* Model of the image scoring backend (backend/main.py, backend/app/utils) *)
(*                                                                         *)
(* Scores are held in thousandths of a score unit (1000 = 1.0), oracle     *)
(* outputs in thousandths as well (1000 = a normalised output of 1.0).     *)
(* A column or JSON value is <<v>> for the number v and <<>> for           *)
(* None/NULL.  A string is a sequence of one-character strings.            *)
(***************************************************************************)
EXTENDS Integers, Sequences, FiniteSets, TLC

\* ------------------------------------------------------------------ bounds

\* number of requests (uploads and corrections together) in a run
NumReqs == 3

Reqs == 1..NumReqs

\* ------------------------------------------------------------- configuration

NUM_CLASSES == 4

\* MAX_SCORES = [4.0, 3.0, 3.0, 4.0], in thousandths
MAX_SCORES == <<4000, 3000, 3000, 4000>>

MAX_FILE_SIZE == 100 * 1024 * 1024

\* display name of a score -> column of the images table, in dict order
FieldNames ==
    <<"Pancreatic Architecture", "Glandular Atrophy",
      "Pseudotubular Complexes", "Fibrosis">>

SCORE_FIELDS ==
    [n \in {FieldNames[i] : i \in 1..NUM_CLASSES} |->
        CASE n = "Pancreatic Architecture" -> "score_architecture"
          [] n = "Glandular Atrophy"       -> "score_atrophy"
          [] n = "Pseudotubular Complexes" -> "score_complexes"
          [] n = "Fibrosis"                -> "score_fibrosis"]

ScoreColumns == {SCORE_FIELDS[n] : n \in DOMAIN SCORE_FIELDS}

\* ------------------------------------------------------------------- values

None == <<>>

Some(v) == <<v>>

\* Python's `x or 0.0` on a float column: None and 0.0 both give 0.0
OrZero(x) == IF x = None THEN 0 ELSE x[1]

\* ------------------------------------------------------------------ strings

Str_unknown_file ==
    <<"u","n","k","n","o","w","n","_","f","i","l","e",".","t","i","f">>

Str_UNKNOWN == <<"U","N","K","N","O","W","N">>

UpperCase ==
    <<"A","B","C","D","E","F","G","H","I","J","K","L","M",
      "N","O","P","Q","R","S","T","U","V","W","X","Y","Z">>

LowerCase ==
    <<"a","b","c","d","e","f","g","h","i","j","k","l","m",
      "n","o","p","q","r","s","t","u","v","w","x","y","z">>

Digits == {"0","1","2","3","4","5","6","7","8","9"}

\* str.lower() of one character
LowerChar(c) ==
    IF \E i \in 1..26 : UpperCase[i] = c
    THEN LowerCase[CHOOSE i \in 1..26 : UpperCase[i] = c]
    ELSE c

\* str.lower()
Lower(s) == [i \in 1..Len(s) |-> LowerChar(s[i])]

\* str.endswith(suffix)
EndsWith(s, suffix) ==
    /\ Len(s) >= Len(suffix)
    /\ SubSeq(s, Len(s) - Len(suffix) + 1, Len(s)) = suffix

\* the extension test without .lower(): upper-case extensions are refused
HasTiffExtensionCaseSensitive(name) ==
    \/ EndsWith(name, <<".","t","i","f">>)
    \/ EndsWith(name, <<".","t","i","f","f">>)

\* safe_filename.lower().endswith(('.tif', '.tiff'))
HasTiffExtension(name) ==
    \/ EndsWith(Lower(name), <<".","t","i","f">>)
    \/ EndsWith(Lower(name), <<".","t","i","f","f">>)

\* file.filename or "unknown_file.tif"
SafeFilename(name) == IF name = <<>> THEN Str_unknown_file ELSE name

\* --------------------------------------------------------- identity parsing

\* positions of "-" in the filename
DashPositions(s) == {i \in 1..Len(s) : s[i] = "-"}

\* parts = filename.split("-"); f"{parts[0]}-{parts[1]}" if len(parts) >= 2
SampleId(s) ==
    LET dashes == DashPositions(s)
    IN  IF dashes = {} THEN Str_UNKNOWN
        ELSE LET first == CHOOSE i \in dashes : \A j \in dashes : i <= j
                 rest  == dashes \ {first}
             IN  IF rest = {} THEN s
                 ELSE SubSeq(s, 1, (CHOOSE i \in rest : \A j \in rest : i <= j) - 1)

\* start positions of a match of r"Image(\d+)" with re.IGNORECASE
ImageMatches(s) ==
    {i \in 1..Len(s) :
        /\ i + 5 <= Len(s)
        /\ Lower(SubSeq(s, i, i + 4)) = <<"i","m","a","g","e">>
        /\ s[i + 5] \in Digits}

\* match.group(1): the greedy digit run that starts at position p
DigitRun(s, p) ==
    LET stop == {j \in p..Len(s) : s[j] \notin Digits}
        last == IF stop = {} THEN Len(s)
                ELSE (CHOOSE j \in stop : \A k \in stop : j <= k) - 1
    IN  SubSeq(s, p, last)

\* the suffix taken from the front of the digit run: raw_num[:2]
ImageSuffixFirstTwo(s) ==
    LET ms == ImageMatches(s)
    IN  IF ms = {} THEN <<"0","0">>
        ELSE LET m   == CHOOSE i \in ms : \A j \in ms : i <= j
                 raw == DigitRun(s, m + 5)
             IN  IF Len(raw) >= 2 THEN SubSeq(raw, 1, 2)
                 ELSE <<"0">> \o raw

\* raw_num[-2:] if len(raw_num) >= 2 else raw_num.zfill(2); "00" without match
ImageSuffix(s) ==
    LET ms == ImageMatches(s)
    IN  IF ms = {} THEN <<"0","0">>
        ELSE LET m   == CHOOSE i \in ms : \A j \in ms : i <= j
                 raw == DigitRun(s, m + 5)
             IN  IF Len(raw) >= 2 THEN SubSeq(raw, Len(raw) - 1, Len(raw))
                 ELSE <<"0">> \o raw

\* the filename part of generate_thumbnail_and_metadata
ParseMetadata(filename) ==
    [sample_id     |-> SampleId(filename),
     serial_number |-> SampleId(filename) \o <<"-">> \o ImageSuffix(filename)]

\* ------------------------------------------------- inputs of the parsing

\* what a submitted filename starts with: "", "S-3602-10X_", "S-4500-10X_",
\* "weird_filename", "a-b", "S-1-", "x-"
ParsePrefixes ==
    {<<>>,
     <<"S","-","3","6","0","2","-","1","0","X","_">>,
     <<"S","-","4","5","0","0","-","1","0","X","_">>,
     <<"w","e","i","r","d","_","f","i","l","e","n","a","m","e">>,
     <<"a","-","b">>,
     <<"S","-","1","-">>,
     <<"x","-">>}

\* its image-number part: "", "Image001", "Image0123", "image7", "IMAGE45",
\* "Image", "Imagex1", "Image9-2"
ParseImageParts ==
    {<<>>,
     <<"I","m","a","g","e","0","0","1">>,
     <<"I","m","a","g","e","0","1","2","3">>,
     <<"i","m","a","g","e","7">>,
     <<"I","M","A","G","E","4","5">>,
     <<"I","m","a","g","e">>,
     <<"I","m","a","g","e","x","1">>,
     <<"I","m","a","g","e","9","-","2">>}

\* its end: "_ch00.tif", ".tif", "_Image99.tif", "-2.tif"
ParseTails ==
    {<<"_","c","h","0","0",".","t","i","f">>,
     <<".","t","i","f">>,
     <<"_","I","m","a","g","e","9","9",".","t","i","f">>,
     <<"-","2",".","t","i","f">>}

\* the filenames the parsing is applied to
ParseInputs ==
    {p \o i \o t : p \in ParsePrefixes, i \in ParseImageParts, t \in ParseTails}

\* ------------------------------------------------------------------ scoring

\* Python's round(n / d) for d > 0: round half to even
RoundHalfEven(n, d) ==
    LET q == n \div d
        r == n % d
    IN  IF 2 * r < d THEN q
        ELSE IF 2 * r > d THEN q + 1
        ELSE IF q % 2 = 0 THEN q ELSE q + 1

\* np.clip(x, lo, hi)
Clip(x, lo, hi) == IF x < lo THEN lo ELSE IF x > hi THEN hi ELSE x

\* a quarter grid reached by truncating: floor(num * 4) / 4
RoundQuarterFloor(num) == ((num * 4) \div 1000) * 250

\* round_quarter(num) = round(num * 4) / 4
RoundQuarter(num) == RoundHalfEven(num * 4, 1000) * 250

\* round(x, 2)
Round2(x) == RoundHalfEven(x, 10) * 10

\* normalized_scores * MAX_SCORES, clipped to [0, MAX_SCORES]; the oracle's
\* output is in thousandths and MAX_SCORES in thousandths
ActualScore(output, i) == Clip((output[i] * MAX_SCORES[i]) \div 1000, 0, MAX_SCORES[i])

\* predict_scores after the model call: the scores dict with its Total
PredictScores(output) ==
    LET quarter(i) == RoundQuarter(ActualScore(output, i))
        sum == quarter(1) + quarter(2) + quarter(3) + quarter(4)
    IN  [n \in {FieldNames[i] : i \in 1..NUM_CLASSES} \cup {"Total"} |->
            IF n = "Total" THEN Some(Round2(sum))
            ELSE Some(quarter(CHOOSE i \in 1..NUM_CLASSES : FieldNames[i] = n))]

\* ------------------------------------------------------------------- inputs

\* "S-1-Image001.tif"
File_Image001 ==
    <<"S","-","1","-","I","m","a","g","e","0","0","1",".","t","i","f">>

\* "S-1-image101.TIFF"
File_Image101 ==
    <<"S","-","1","-","i","m","a","g","e","1","0","1",".","T","I","F","F">>

\* "a.jpg"
File_jpg == <<"a",".","j","p","g">>

\* submitted filenames; <<>> is an upload without a filename
FileNames == {File_Image001, File_Image101, File_jpg, <<>>}

\* submitted payload sizes in bytes
FileSizes == {MAX_FILE_SIZE, MAX_FILE_SIZE + 1}

\* outputs of the network for the four classes, in thousandths
OracleOutputs ==
    {<<250, 333, 334, 250>>,
     <<-500, 1700, 125, 594>>}

\* values of one component of the network's output, in thousandths: below 0,
\* 0, either side of the first quarter boundary, ties between two quarters,
\* interior values, 1 and above 1
ScoreComponents == {-500, 0, 31, 32, 94, 125, 333, 375, 594, 999, 1000, 1700}

\* output vectors for the scoring of one image
ScoreInputs ==
    {<<a, b, c, a>> : a \in ScoreComponents, b \in ScoreComponents,
                      c \in ScoreComponents}

\* JSON bodies of PUT /api/scores/{db_id}
Payloads ==
    {[n \in {"Fibrosis"} |-> Some(3500)],
     [n \in {"Pancreatic Architecture", "Glandular Atrophy"} |->
        IF n = "Pancreatic Architecture" THEN Some(3300) ELSE Some(9000)],
     [n \in {"Pseudotubular Complexes", "Fibrosis"} |->
        IF n = "Pseudotubular Complexes" THEN None ELSE Some(-1000)]}

\* ids a correction may address
DbIds == 1..NumReqs

\* -------------------------------------------------------------------- state

VARIABLES
    model_loaded,     \* app.state.model is not None
    table,            \* rows of the scores table, in insertion order
    now,              \* the clock datetime.now() reads
    pc,               \* position of each request in its handler
    handler,          \* "upload_image" or "update_score", "" before it starts
    filename,         \* safe_filename of an upload
    file_size,        \* file_size of an upload
    existing_record,  \* the row upload_image loaded at its first query
    result,           \* the dict extract_and_process_image returned
    db_id,            \* path parameter of update_score
    payload,          \* body of update_score
    record,           \* the row update_score loaded, with its pending changes
    resp,             \* the response of each finished request
    oracle_calls,     \* history: model invocations per filename
    corrected,        \* history: id -> scores committed by the latest correction
    seen_corrected,   \* history: the correction in force when an upload looked up
    record_existed,   \* history: a row with the filename was stored at the lookup
    fault,            \* history: where and how a request's processing failed
    written,          \* history: ids of the rows a request committed a write to
    parse_input,      \* the filename handed to generate_thumbnail_and_metadata
    parse_output,     \* the metadata it returned
    model_output      \* per request: the network's output vector, <<>> before inference

vars ==
    <<model_loaded, table, now, pc, handler, filename, existing_record, result,
      db_id, payload, record, resp, oracle_calls, corrected, seen_corrected,
      file_size, record_existed, fault, written, parse_input, parse_output,
      model_output>>

\* ----------------------------------------------------------------- the table

\* the row type of the scores table
ImageScore(id, values, ts) ==
    [id                 |-> id,
     filename           |-> values.filename,
     serial_number      |-> values.serial_number,
     sample_id          |-> values.sample_id,
     score_architecture |-> values.score_architecture,
     score_atrophy      |-> values.score_atrophy,
     score_complexes    |-> values.score_complexes,
     score_fibrosis     |-> values.score_fibrosis,
     score_total        |-> values.score_total,
     timestamp          |-> ts]

\* what .first() returns without a row
NotFound == [id |-> 0]

\* the first query filtering on the serial_number column instead of filename
FirstBySerialNumber(tbl, name) ==
    LET hits == {i \in 1..Len(tbl) : tbl[i].serial_number = name}
    IN  IF hits = {} THEN NotFound
        ELSE tbl[CHOOSE i \in hits : \A j \in hits : i <= j]

\* the first query keyed on the serial number derived from the filename
FirstByDerivedSerial(tbl, name) ==
    LET hits == {i \in 1..Len(tbl) :
                    tbl[i].serial_number = ParseMetadata(name).serial_number}
    IN  IF hits = {} THEN NotFound
        ELSE tbl[CHOOSE i \in hits : \A j \in hits : i <= j]

\* db.query(ImageScore).filter(ImageScore.filename == name).first()
FirstByFilename(tbl, name) ==
    LET hits == {i \in 1..Len(tbl) : tbl[i].filename = name}
    IN  IF hits = {} THEN NotFound
        ELSE tbl[CHOOSE i \in hits : \A j \in hits : i <= j]

\* the query by id without its filter: the first row of the table, if any
FirstOfTable(tbl, id) == IF Len(tbl) = 0 THEN NotFound ELSE tbl[1]

\* db.query(ImageScore).filter(ImageScore.id == id).first()
FirstById(tbl, id) ==
    LET hits == {i \in 1..Len(tbl) : tbl[i].id = id}
    IN  IF hits = {} THEN NotFound
        ELSE tbl[CHOOSE i \in hits : \A j \in hits : i <= j]

\* INSERT OR REPLACE: a conflicting row is deleted and a new row, with a new
\* id, is appended in its place
InsertOrReplace(tbl, values, ts) ==
    LET kept == SelectSeq(tbl, LAMBDA row : row.filename # values.filename)
    IN  Append(kept, ImageScore(Len(tbl) + 1, values, ts))

\* a plain insert: no conflict target, a second row for the filename
InsertAlways(tbl, values, ts) == Append(tbl, ImageScore(Len(tbl) + 1, values, ts))

\* an upsert that overwrites on conflict (on_conflict_do_update)
InsertOnConflictDoUpdate(tbl, values, ts) ==
    IF \E i \in 1..Len(tbl) : tbl[i].filename = values.filename
    THEN [i \in 1..Len(tbl) |->
            IF tbl[i].filename = values.filename
            THEN ImageScore(tbl[i].id, values, ts) ELSE tbl[i]]
    ELSE Append(tbl, ImageScore(Len(tbl) + 1, values, ts))

\* insert(ImageScore).values(...).on_conflict_do_nothing(['filename']); commit
InsertOnConflictDoNothing(tbl, values, ts) ==
    IF \E i \in 1..Len(tbl) : tbl[i].filename = values.filename
    THEN tbl
    ELSE Append(tbl, ImageScore(Len(tbl) + 1, values, ts))

\* a failed insert that is not rolled back: the row stays in the table
InsertNotRolledBack(tbl, values, ts) == InsertOnConflictDoNothing(tbl, values, ts)

\* an insert whose execute or commit raised: the handler's db.rollback()
\* discards the transaction, the table is as it was
RolledBackInsert(tbl, values, ts) == tbl

\* an UPDATE that writes every column of the session's row, changed or not
FlushWholeRow(tbl, loaded, row) ==
    [i \in 1..Len(tbl) |-> IF tbl[i].id # loaded.id THEN tbl[i] ELSE row]

\* the UPDATE a commit flushes: the columns of `row` that differ from the
\* loaded row `loaded` are written to the row with that id
FlushChanges(tbl, loaded, row) ==
    [i \in 1..Len(tbl) |->
        IF tbl[i].id # loaded.id THEN tbl[i]
        ELSE [c \in DOMAIN tbl[i] |->
                IF row[c] # loaded[c] THEN row[c] ELSE tbl[i][c]]]

\* the four score columns and the total of a row, by column name
RowScores(row) == [c \in ScoreColumns \cup {"score_total"} |-> row[c]]

\* ---------------------------------------------------------------- responses

NoResponse == [status |-> 0, body |-> [detail |-> ""]]

\* raise HTTPException(code, detail)
HTTPException(code, detail) == [status |-> code, body |-> [detail |-> detail]]

\* f"{n / 1024 / 1024:.1f}": a byte count in MB with one decimal, the tenths
\* rounded to nearest, ties to even
FormatMB(n) ==
    LET tenths == RoundHalfEven(n * 10, 1024 * 1024)
    IN  ToString(tenths \div 10) \o "." \o ToString(tenths % 10)

\* f"File too large ({file_size / 1024 / 1024:.1f} MB). Max: {MAX_FILE_SIZE / 1024 / 1024:.1f} MB"
FileTooLargeDetail(size) ==
    "File too large (" \o FormatMB(size) \o " MB). Max: "
        \o FormatMB(MAX_FILE_SIZE) \o " MB"

\* a handler's return value, sent with status 200
Ok(body) == [status |-> 200, body |-> body]

\* except Exception: db.rollback(); raise HTTPException(500, ...)
InternalError == HTTPException(500, "Internal server error during image processing")

\* a health check that looks at the store alone
HealthCheckIgnoresModel(store_ok, handle) ==
    IF ~store_ok
    THEN HTTPException(503, "Unhealthy: store")
    ELSE Ok([status |-> "healthy", model_loaded |-> TRUE, database |-> "connected"])

\* health_check: SELECT 1, then the model handle ("missing" when app.state
\* has no attribute model, "None", or "loaded"); the HTTPException raised for
\* the handle is caught by except Exception like a store error, and both
\* leave as 503
HealthCheckResponse(store_ok, handle) ==
    IF ~store_ok
    THEN HTTPException(503, "Unhealthy: store")
    ELSE IF handle \in {"missing", "None"}
    THEN HTTPException(503, "Unhealthy: 503: Model not loaded")
    ELSE Ok([status |-> "healthy", model_loaded |-> TRUE, database |-> "connected"])

\* the data URI generate_thumbnail_and_metadata builds from a decodable image
DisplayUrl == "data:image/png;base64,"

\* the cached result with the Total read from the fibrosis column
CachedResultWrongColumn(row, metadata) ==
    [status        |-> "success",
     filename      |-> row.filename,
     serial_number |-> metadata.serial_number,
     sample_id     |-> metadata.sample_id,
     scores        |->
        [n \in {FieldNames[i] : i \in 1..NUM_CLASSES} \cup {"Total"} |->
            IF n = "Total" THEN row.score_fibrosis ELSE row[SCORE_FIELDS[n]]],
     display_url   |-> DisplayUrl,
     db_id         |-> row.id]

\* the result dict upload_image builds from the row it found
CachedResult(row, metadata) ==
    [status        |-> "success",
     filename      |-> row.filename,
     serial_number |-> metadata.serial_number,
     sample_id     |-> metadata.sample_id,
     scores        |->
        [n \in {FieldNames[i] : i \in 1..NUM_CLASSES} \cup {"Total"} |->
            IF n = "Total" THEN row.score_total ELSE row[SCORE_FIELDS[n]]],
     display_url   |-> DisplayUrl,
     db_id         |-> row.id]

\* the dict extract_and_process_image returns for a decodable image
\* a result whose serial number stops at the sample id, without the image suffix
ExtractWithSampleIdAsSerial(name, output) ==
    [status        |-> "success",
     filename      |-> name,
     serial_number |-> ParseMetadata(name).sample_id,
     sample_id     |-> ParseMetadata(name).sample_id,
     scores        |-> PredictScores(output),
     display_url   |-> DisplayUrl]

ExtractAndProcessImage(name, output) ==
    [status        |-> "success",
     filename      |-> name,
     serial_number |-> ParseMetadata(name).serial_number,
     sample_id     |-> ParseMetadata(name).sample_id,
     scores        |-> PredictScores(output),
     display_url   |-> DisplayUrl]

NoResult == [status |-> ""]

\* the values(...) of the insert statement, taken from the result dict
InsertValues(res) ==
    [filename           |-> res.filename,
     serial_number      |-> res.serial_number,
     sample_id          |-> res.sample_id,
     score_architecture |-> res.scores["Pancreatic Architecture"],
     score_atrophy      |-> res.scores["Glandular Atrophy"],
     score_complexes    |-> res.scores["Pseudotubular Complexes"],
     score_fibrosis     |-> res.scores["Fibrosis"],
     score_total        |-> res.scores["Total"]]

\* the result returned as extract_and_process_image built it, without db_id
WithoutDbId(res, row) == res

\* result["db_id"] = final_record.id; return result
WithDbId(res, row) ==
    [k \in DOMAIN res \cup {"db_id"} |-> IF k = "db_id" THEN row.id ELSE res[k]]

\* the loop with payload.get(field_name): an absent field is set to None
ApplyPayloadAllFields(row, body) ==
    [c \in DOMAIN row |->
        IF \E n \in DOMAIN SCORE_FIELDS : SCORE_FIELDS[n] = c
        THEN LET n == CHOOSE m \in DOMAIN SCORE_FIELDS : SCORE_FIELDS[m] = c
             IN  IF n \in DOMAIN body THEN body[n] ELSE None
        ELSE row[c]]

\* update_score's loop over SCORE_FIELDS: setattr for the fields in the payload
ApplyPayload(row, body) ==
    [c \in DOMAIN row |->
        IF \E n \in DOMAIN SCORE_FIELDS : SCORE_FIELDS[n] = c /\ n \in DOMAIN body
        THEN body[CHOOSE n \in DOMAIN SCORE_FIELDS : SCORE_FIELDS[n] = c]
        ELSE row[c]]

\* update_score without the recalculation: the loaded total is kept
KeepStoredTotal(row) == row

\* the recalculation with the fibrosis term left out of the sum
RecalculateTotalThreeTerms(row) ==
    [row EXCEPT !.score_total =
        Some(OrZero(row.score_architecture) + OrZero(row.score_atrophy)
             + OrZero(row.score_complexes))]

\* update_score's recalculation of record.score_total
RecalculateTotal(row) ==
    [row EXCEPT !.score_total =
        Some(OrZero(row.score_architecture) + OrZero(row.score_atrophy)
             + OrZero(row.score_complexes) + OrZero(row.score_fibrosis))]

\* existing_record.timestamp = datetime.now()
Touch(row, t) == [row EXCEPT !.timestamp = t]

\* --------------------------------------------------------------------- Init

NoFault == [at |-> "", kind |-> ""]

\* a request's step `at` raised: "decode", "oracle" or "store"
Fault(at, kind) == [at |-> at, kind |-> kind]

NoMetadata == [sample_id |-> <<>>, serial_number |-> <<>>]

InitRequests ==
    /\ model_loaded \in BOOLEAN
    /\ table = <<>>
    /\ now = 0
    /\ pc = [r \in Reqs |-> "idle"]
    /\ handler = [r \in Reqs |-> ""]
    /\ filename = [r \in Reqs |-> <<>>]
    /\ existing_record = [r \in Reqs |-> NotFound]
    /\ result = [r \in Reqs |-> NoResult]
    /\ db_id = [r \in Reqs |-> 0]
    /\ payload = [r \in Reqs |-> <<>>]
    /\ record = [r \in Reqs |-> NotFound]
    /\ resp = [r \in Reqs |-> NoResponse]
    /\ oracle_calls = [f \in {SafeFilename(n) : n \in FileNames} |-> 0]
    /\ corrected = [i \in {} |-> 0]
    /\ seen_corrected = [r \in Reqs |-> NotFound]
    /\ file_size = [r \in Reqs |-> 0]
    /\ record_existed = [r \in Reqs |-> FALSE]
    /\ fault = [r \in Reqs |-> NoFault]
    /\ written = [r \in Reqs |-> {}]
    /\ model_output = [r \in Reqs |-> <<>>]

\* the service after its start, before any request
Init ==
    /\ InitRequests
    /\ parse_input = <<>>
    /\ parse_output = NoMetadata

\* a filename about to be parsed
InitParse ==
    /\ InitRequests
    /\ parse_input \in ParseInputs
    /\ parse_output = NoMetadata

\* requests arrive in the order of their numbers
CanStart(r) == pc[r] = "idle" /\ \A q \in Reqs : q < r => pc[q] # "idle"

\* ------------------------------------------------------------- upload_image

\* lines 111-130: the three validations, before the try block
UploadValidate(r) ==
    /\ CanStart(r)
    /\ \E name \in FileNames, size \in FileSizes :
        LET safe_filename == SafeFilename(name)
        IN  /\ handler' = [handler EXCEPT ![r] = "upload_image"]
            /\ filename' = [filename EXCEPT ![r] = safe_filename]
            /\ file_size' = [file_size EXCEPT ![r] = size]
            /\ IF ~HasTiffExtension(safe_filename)
               THEN /\ resp' = [resp EXCEPT ![r] =
                            HTTPException(400, "Only .tif files supported")]
                    /\ pc' = [pc EXCEPT ![r] = "done"]
               ELSE IF size > MAX_FILE_SIZE
               THEN /\ resp' = [resp EXCEPT ![r] =
                            HTTPException(413, FileTooLargeDetail(size))]
                    /\ pc' = [pc EXCEPT ![r] = "done"]
               ELSE IF ~model_loaded
               THEN /\ resp' = [resp EXCEPT ![r] =
                            HTTPException(503, "AI Model not loaded")]
                    /\ pc' = [pc EXCEPT ![r] = "done"]
               ELSE /\ resp' = resp
                    /\ pc' = [pc EXCEPT ![r] = "query"]
    /\ UNCHANGED <<model_output, fault, written, parse_input, parse_output,
                   record_existed, model_loaded, table, now, existing_record,
                   result, db_id, payload, record, oracle_calls, corrected,
                   seen_corrected>>

\* lines 134-138: the first query by filename
UploadQuery(r) ==
    /\ pc[r] = "query"
    /\ \E store_ok \in BOOLEAN :
        IF ~store_ok
        THEN \* the query raises; except Exception: rollback; 500
             /\ resp' = [resp EXCEPT ![r] = InternalError]
             /\ fault' = [fault EXCEPT ![r] = Fault("query", "store")]
             /\ pc' = [pc EXCEPT ![r] = "done"]
             /\ UNCHANGED <<existing_record, seen_corrected, record_existed>>
        ELSE LET row == FirstByFilename(table, filename[r])
             IN  /\ existing_record' = [existing_record EXCEPT ![r] = row]
                 /\ seen_corrected' = [seen_corrected EXCEPT ![r] =
                        IF row # NotFound /\ row.id \in DOMAIN corrected
                        THEN corrected[row.id] ELSE NotFound]
                 /\ record_existed' = [record_existed EXCEPT ![r] =
                        \E i \in 1..Len(table) : table[i].filename = filename[r]]
                 /\ pc' = [pc EXCEPT ![r] =
                        IF row # NotFound THEN "cached" ELSE "infer"]
                 /\ UNCHANGED <<resp, fault>>
    /\ UNCHANGED <<model_output, written, parse_input, parse_output,
                   file_size, model_loaded, table, now, handler, filename,
                   result, db_id, payload, record, oracle_calls, corrected>>

\* lines 138-166: the record exists; thumbnail, result from the row, touch
UploadCached(r) ==
    /\ pc[r] = "cached"
    /\ \E outcome \in {"ok", "decode", "store"} :
        IF outcome # "ok"
        THEN \* generate_thumbnail_and_metadata raises, or the commit of the
             \* touch does; except Exception: rollback; 500
             /\ resp' = [resp EXCEPT ![r] = InternalError]
             /\ fault' = [fault EXCEPT ![r] = Fault("cached", outcome)]
             /\ UNCHANGED <<table, now, written>>
        ELSE /\ resp' = [resp EXCEPT ![r] =
                    Ok(CachedResult(existing_record[r], ParseMetadata(filename[r])))]
             /\ now' = now + 1
             /\ table' = FlushChanges(table, existing_record[r],
                                      Touch(existing_record[r], now + 1))
             /\ written' = [written EXCEPT ![r] = @ \cup {existing_record[r].id}]
             /\ fault' = fault
    /\ pc' = [pc EXCEPT ![r] = "done"]
    /\ UNCHANGED <<model_output, parse_input, parse_output,
                   file_size, record_existed, model_loaded, handler, filename,
                   existing_record, result, db_id, payload, record,
                   oracle_calls, corrected, seen_corrected>>

\* lines 168-177: no record; decode the image and run the model
UploadInferFrom(r, outputs) ==
    /\ pc[r] = "infer"
    /\ \E outcome \in {"ok", "decode", "oracle"}, output \in outputs :
        IF outcome # "ok"
        THEN \* Image.open raises before the model runs, or the model raises
             \* when it is called; except Exception: rollback; 500
             /\ resp' = [resp EXCEPT ![r] = InternalError]
             /\ fault' = [fault EXCEPT ![r] = Fault("infer", outcome)]
             /\ pc' = [pc EXCEPT ![r] = "done"]
             /\ oracle_calls' = [oracle_calls EXCEPT ![filename[r]] =
                    IF outcome = "oracle" THEN @ + 1 ELSE @]
             /\ UNCHANGED <<result, model_output>>
        ELSE /\ result' = [result EXCEPT ![r] = ExtractAndProcessImage(filename[r], output)]
             /\ model_output' = [model_output EXCEPT ![r] = output]
             /\ oracle_calls' = [oracle_calls EXCEPT ![filename[r]] = @ + 1]
             /\ pc' = [pc EXCEPT ![r] = "insert"]
             /\ UNCHANGED <<resp, fault>>
    /\ UNCHANGED <<written, parse_input, parse_output,
                   file_size, record_existed, model_loaded, table, now, handler,
                   filename, existing_record, db_id, payload, record, corrected,
                   seen_corrected>>

UploadInfer(r) == UploadInferFrom(r, OracleOutputs)

\* lines 179-194: the insert with on_conflict_do_nothing, and its commit
UploadInsert(r) ==
    /\ pc[r] = "insert"
    /\ \E store_ok \in BOOLEAN :
        IF ~store_ok
        THEN \* execute or commit raises; except Exception: rollback; 500
             /\ table' = RolledBackInsert(table, InsertValues(result[r]), now)
             /\ resp' = [resp EXCEPT ![r] = InternalError]
             /\ fault' = [fault EXCEPT ![r] = Fault("insert", "store")]
             /\ pc' = [pc EXCEPT ![r] = "done"]
             /\ written' = written
        ELSE /\ table' = InsertOnConflictDoNothing(table, InsertValues(result[r]), now)
             /\ written' = [written EXCEPT ![r] =
                    IF Len(table') > Len(table)
                    THEN @ \cup {table'[Len(table')].id} ELSE @]
             /\ pc' = [pc EXCEPT ![r] = "reread"]
             /\ UNCHANGED <<resp, fault>>
    /\ UNCHANGED <<model_output, parse_input, parse_output,
                   file_size, record_existed, model_loaded, now, handler,
                   filename, existing_record, result, db_id, payload, record,
                   oracle_calls, corrected, seen_corrected>>

\* lines 196-206: the second query, db_id, the response
UploadReread(r) ==
    /\ pc[r] = "reread"
    /\ \E store_ok \in BOOLEAN :
        LET final_record == FirstByFilename(table, result[r].filename)
        IN  IF ~store_ok
            THEN \* the second query raises; except Exception: rollback; 500
                 /\ resp' = [resp EXCEPT ![r] = InternalError]
                 /\ fault' = [fault EXCEPT ![r] = Fault("reread", "store")]
                 /\ result' = result
            ELSE IF final_record = NotFound
            THEN /\ resp' = [resp EXCEPT ![r] =
                        HTTPException(500, "Failed to create database record")]
                 /\ UNCHANGED <<result, fault>>
            ELSE /\ result' = [result EXCEPT ![r] = WithDbId(result[r], final_record)]
                 /\ resp' = [resp EXCEPT ![r] = Ok(WithDbId(result[r], final_record))]
                 /\ fault' = fault
    /\ pc' = [pc EXCEPT ![r] = "done"]
    /\ UNCHANGED <<model_output, written, parse_input, parse_output,
                   file_size, record_existed, model_loaded, table, now, handler,
                   filename, existing_record, db_id, payload, record,
                   oracle_calls, corrected, seen_corrected>>

\* ------------------------------------------------------------- update_score

\* lines 225-227: the query by id, 404 without a row
UpdateQuery(r) ==
    /\ CanStart(r)
    /\ \E id \in DbIds, body \in Payloads :
        LET row == FirstById(table, id)
        IN  /\ handler' = [handler EXCEPT ![r] = "update_score"]
            /\ db_id' = [db_id EXCEPT ![r] = id]
            /\ payload' = [payload EXCEPT ![r] = body]
            /\ record' = [record EXCEPT ![r] = row]
            /\ IF row = NotFound
               THEN /\ resp' = [resp EXCEPT ![r] =
                            HTTPException(404, "Score record not found")]
                    /\ pc' = [pc EXCEPT ![r] = "done"]
               ELSE /\ resp' = resp
                    /\ pc' = [pc EXCEPT ![r] = "commit"]
    /\ UNCHANGED <<model_output, fault, written, parse_input, parse_output,
                   file_size, record_existed, model_loaded, table, now,
                   filename, existing_record, result, oracle_calls, corrected,
                   seen_corrected>>

\* lines 229-242: set the fields, recalculate the total, commit
UpdateCommit(r) ==
    /\ pc[r] = "commit"
    /\ LET changed == RecalculateTotal(ApplyPayload(record[r], payload[r]))
           tbl     == FlushChanges(table, record[r], changed)
       IN  /\ table' = tbl
           /\ record' = [record EXCEPT ![r] = changed]
           /\ corrected' =
                [i \in DOMAIN corrected \cup {record[r].id} |->
                    IF i = record[r].id THEN RowScores(FirstById(tbl, i))
                    ELSE corrected[i]]
           /\ written' = [written EXCEPT ![r] = @ \cup {record[r].id}]
    /\ pc' = [pc EXCEPT ![r] = "refresh"]
    /\ UNCHANGED <<model_output, fault, parse_input, parse_output,
                   file_size, record_existed, model_loaded, now, handler,
                   filename, existing_record, result, db_id, payload, resp,
                   oracle_calls, seen_corrected>>

\* lines 243-245: db.refresh(record), the response
UpdateRefresh(r) ==
    /\ pc[r] = "refresh"
    /\ LET row == FirstById(table, record[r].id)
       IN  /\ record' = [record EXCEPT ![r] = row]
           /\ resp' = [resp EXCEPT ![r] =
                Ok([status |-> "updated", new_total |-> row.score_total])]
    /\ pc' = [pc EXCEPT ![r] = "done"]
    /\ UNCHANGED <<model_output, fault, written, parse_input, parse_output,
                   file_size, record_existed, model_loaded, table, now, handler,
                   filename, existing_record, result, db_id, payload,
                   oracle_calls, corrected, seen_corrected>>

\* ------------------------------------------------------------- health_check

\* app.state.model as the lifespan left it: the model, or None
ModelHandle == IF model_loaded THEN "loaded" ELSE "None"

\* lines 85-103: one query against the store, then the model handle
HealthCheck(r) ==
    /\ CanStart(r)
    /\ \E store_ok \in BOOLEAN :
        /\ handler' = [handler EXCEPT ![r] = "health_check"]
        /\ fault' = [fault EXCEPT ![r] =
                IF store_ok THEN NoFault ELSE Fault("ping", "store")]
        /\ resp' = [resp EXCEPT ![r] = HealthCheckResponse(store_ok, ModelHandle)]
        /\ pc' = [pc EXCEPT ![r] = "done"]
    /\ UNCHANGED <<model_output, written, parse_input, parse_output, file_size,
                   record_existed, model_loaded, table, now, filename,
                   existing_record, result, db_id, payload, record,
                   oracle_calls, corrected, seen_corrected>>

\* ----------------------------------------------------------------- lifespan

Quiescent == \A r \in Reqs : pc[r] \in {"idle", "done"}

\* lines 36-55: a start of the process loads the model, or leaves it None
Lifespan ==
    /\ Quiescent
    /\ model_loaded' = ~model_loaded
    /\ UNCHANGED <<model_output, fault, written, parse_input, parse_output,
                   file_size, record_existed, table, now, pc, handler, filename,
                   existing_record, result, db_id, payload, record, resp,
                   oracle_calls, corrected, seen_corrected>>

\* -------------------------------------------------------------------- specs

Step(r) ==
    \/ UploadValidate(r)
    \/ UploadQuery(r)
    \/ UploadCached(r)
    \/ UploadInfer(r)
    \/ UploadInsert(r)
    \/ UploadReread(r)
    \/ UpdateQuery(r)
    \/ UpdateCommit(r)
    \/ UpdateRefresh(r)
    \/ HealthCheck(r)

Next == Lifespan \/ \E r \in Reqs : Step(r)

Spec == Init /\ [][Next]_vars

\* requests executed one at a time: a request starts when no other is running
NextSeq ==
    \/ Lifespan
    \/ \E r \in Reqs :
        \/ Quiescent /\ UploadValidate(r)
        \/ UploadQuery(r)
        \/ UploadCached(r)
        \/ UploadInfer(r)
        \/ UploadInsert(r)
        \/ UploadReread(r)
        \/ Quiescent /\ UpdateQuery(r)
        \/ UpdateCommit(r)
        \/ UpdateRefresh(r)
        \/ Quiescent /\ HealthCheck(r)

SpecSeq == Init /\ [][NextSeq]_vars

\* utils.py lines 126-139: the metadata of the filename
GenerateMetadata ==
    /\ parse_output = NoMetadata
    /\ parse_output' = ParseMetadata(parse_input)
    /\ UNCHANGED <<model_output, model_loaded, table, now, pc, handler, filename,
                   existing_record, result, db_id, payload, record, resp,
                   oracle_calls, corrected, seen_corrected, file_size,
                   record_existed, fault, written, parse_input>>

NextParse == GenerateMetadata

\* the parsing applied to each of ParseInputs
SpecParse == InitParse /\ [][NextParse]_vars

\* the first upload a fresh service receives, its image scored with any of
\* ScoreInputs
NextScore ==
    \/ UploadValidate(1)
    \/ UploadQuery(1)
    \/ UploadInferFrom(1, ScoreInputs)
    \/ UploadInsert(1)
    \/ UploadReread(1)

SpecScore == Init /\ [][NextScore]_vars

\* ------------------------------------------------------------------- claims

Rows == {table[i] : i \in 1..Len(table)}

\* uploads that were answered with status 200
UploadsOk ==
    {r \in Reqs : handler[r] = "upload_image" /\ pc[r] = "done" /\ resp[r].status = 200}

\* C1: the table never holds two rows with the same filename, whatever the
\* interleaving of uploads (two uploads that both missed included).
OneRecordPerFilename ==
    \A i, j \in 1..Len(table) : table[i].filename = table[j].filename => i = j

\* two uploads of one filename both ran the model and both executed the insert
TwoInsertsOfOneFilename ==
    \E r1, r2 \in Reqs :
        /\ r1 # r2
        /\ filename[r1] = filename[r2]
        /\ result[r1] # NoResult /\ pc[r1] \in {"reread", "done"}
        /\ result[r2] # NoResult /\ pc[r2] \in {"reread", "done"}
        /\ Len(table) = 1

\* C2: an upload that ran the model (its lookup missed) answers with the scores
\* of the row stored for its filename -- the winner's, when its own insert lost
\* the conflict -- as long as no correction has been committed to that row.
MissServesStoredScores ==
    \A r \in UploadsOk :
        LET row == FirstByFilename(table, filename[r])
        IN  (existing_record[r] = NotFound /\ row.id \notin DOMAIN corrected)
            => /\ resp[r].body.scores["Pancreatic Architecture"] = row.score_architecture
               /\ resp[r].body.scores["Glandular Atrophy"] = row.score_atrophy
               /\ resp[r].body.scores["Pseudotubular Complexes"] = row.score_complexes
               /\ resp[r].body.scores["Fibrosis"] = row.score_fibrosis
               /\ resp[r].body.scores["Total"] = row.score_total

\* C3: an upload whose lookup found a row never runs the model, and its
\* response carries the four scores, the total and the id of the row as the
\* lookup loaded it.
CacheHitServesLoadedRow ==
    \A r \in Reqs :
        (handler[r] = "upload_image" /\ existing_record[r] # NotFound)
        => /\ result[r] = NoResult
           /\ pc[r] \in {"cached", "done"}
           /\ r \in UploadsOk =>
                /\ resp[r].body.scores["Pancreatic Architecture"]
                        = existing_record[r].score_architecture
                /\ resp[r].body.scores["Glandular Atrophy"]
                        = existing_record[r].score_atrophy
                /\ resp[r].body.scores["Pseudotubular Complexes"]
                        = existing_record[r].score_complexes
                /\ resp[r].body.scores["Fibrosis"] = existing_record[r].score_fibrosis
                /\ resp[r].body.scores["Total"] = existing_record[r].score_total
                /\ resp[r].body.db_id = existing_record[r].id

\* a cache hit was answered after a correction changed the row it had loaded
CacheHitAnsweredAfterRowChanged ==
    \E r \in UploadsOk :
        /\ existing_record[r] # NotFound
        /\ RowScores(FirstById(table, existing_record[r].id))
                # RowScores(existing_record[r])

\* C4: once a correction is committed to a row, the row keeps the scores and
\* total of its latest correction through every later step of every upload,
\* and an upload that looks the filename up afterwards runs no inference and
\* answers with the corrected values in force at its lookup.
CorrectionsSurviveReupload ==
    /\ \A id \in DOMAIN corrected : RowScores(FirstById(table, id)) = corrected[id]
    /\ \A r \in Reqs :
        (handler[r] = "upload_image" /\ seen_corrected[r] # NotFound)
        => /\ result[r] = NoResult
           /\ r \in UploadsOk =>
                /\ resp[r].body.scores["Pancreatic Architecture"]
                        = seen_corrected[r].score_architecture
                /\ resp[r].body.scores["Glandular Atrophy"]
                        = seen_corrected[r].score_atrophy
                /\ resp[r].body.scores["Pseudotubular Complexes"]
                        = seen_corrected[r].score_complexes
                /\ resp[r].body.scores["Fibrosis"] = seen_corrected[r].score_fibrosis
                /\ resp[r].body.scores["Total"] = seen_corrected[r].score_total

\* an upload was answered from a row that had been corrected before its lookup
ReuploadAfterCorrection ==
    \E r \in UploadsOk : seen_corrected[r] # NotFound

\* C5: with requests executed one at a time, the total of every stored row is
\* the sum of its four score columns (a column without a value counting as 0).
TotalIsSum ==
    \A row \in Rows :
        row.score_total =
            Some(OrZero(row.score_architecture) + OrZero(row.score_atrophy)
                 + OrZero(row.score_complexes) + OrZero(row.score_fibrosis))

\* a correction has been committed and changed the total of its row
CorrectionChangedTotal ==
    \E r \in Reqs :
        /\ handler[r] = "update_score" /\ pc[r] = "done" /\ resp[r].status = 200
        /\ \E q \in UploadsOk :
            /\ resp[q].body.db_id = db_id[r]
            /\ resp[q].body.scores["Total"] # resp[r].body.new_total

\* C6: every stored score lies in [0, max] for its dimension (maxima 4, 3, 3, 4),
\* whether an upload or a correction wrote it.
ScoresWithinMaxima ==
    \A row \in Rows : \A i \in 1..NUM_CLASSES :
        LET x == row[SCORE_FIELDS[FieldNames[i]]]
        IN  x # None => 0 <= x[1] /\ x[1] <= MAX_SCORES[i]

\* C7: every stored score (the total excluded) is a multiple of 0.25, after
\* any sequence of uploads and corrections.
ScoresAreQuarterMultiples ==
    \A row \in Rows : \A c \in ScoreColumns :
        row[c] # None => row[c][1] % 250 = 0

\* C8 as stated: the model runs at most once per filename.
OracleAtMostOncePerFilename ==
    \A f \in DOMAIN oracle_calls : oracle_calls[f] <= 1

\* C8 as amended: the model runs only for a request whose own lookup found no
\* row for its filename, so the runs for a filename number at most the uploads
\* of it that looked up before its row was stored.
InferenceOnlyOnMiss ==
    /\ \A r \in Reqs :
        (pc[r] \in {"infer", "insert", "reread"} \/ result[r] # NoResult)
        => ~record_existed[r]
    /\ \A f \in DOMAIN oracle_calls :
        oracle_calls[f] <=
            Cardinality({r \in Reqs :
                /\ handler[r] = "upload_image" /\ filename[r] = f
                /\ result[r] # NoResult \/ fault[r] = Fault("infer", "oracle")
                /\ ~record_existed[r]})

\* two overlapping uploads of one filename both ran the model, and a third
\* upload of it that looked up afterwards did not
RacedThenCached ==
    \E f \in DOMAIN oracle_calls :
        /\ oracle_calls[f] = 2
        /\ \E r \in UploadsOk : filename[r] = f /\ record_existed[r]

\* C9: an upload is refused by its validation, in this order, with 400 for a
\* name not ending in .tif/.tiff in any letter case, 413 for more than
\* MAX_FILE_SIZE bytes, 503 while no model is loaded; a refused upload has
\* neither read nor written the table, also when a row for its name is stored.
ValidationRejectsBeforeRepository ==
    [][\A r \in Reqs :
        (pc[r] = "idle" /\ handler'[r] = "upload_image") =>
            LET tiff == filename'[r] \in {File_Image001, File_Image101, Str_unknown_file}
                size == file_size'[r]
                code == resp'[r].status
            IN  /\ code = 400 <=> ~tiff
                /\ code = 413 <=> (tiff /\ size > 104857600)
                /\ code = 503 <=> (tiff /\ size <= 104857600 /\ ~model_loaded)
                /\ code \in {0, 400, 413, 503}
                /\ code # 0 =>
                    /\ pc'[r] = "done"
                    /\ table' = table
                    /\ existing_record'[r] = NotFound
                    /\ ~record_existed'[r]
                /\ code = 0 => pc'[r] = "query"
      ]_vars

\* an upload was refused with 503 while a row for its filename was stored,
\* and another was refused with 400 or 413
RefusedWhileStored ==
    /\ \E r \in Reqs :
        /\ handler[r] = "upload_image" /\ resp[r].status = 503
        /\ \E row \in Rows : row.filename = filename[r]
    /\ \E r \in Reqs : handler[r] = "upload_image" /\ resp[r].status \in {400, 413}

\* C10: a correction whose id matches no stored row is answered 404 at once
\* and changes no row.
UnknownIdIsNotFound ==
    [][\A r \in Reqs :
        (pc[r] = "idle" /\ handler'[r] = "update_score"
            /\ \A i \in 1..Len(table) : table[i].id # db_id'[r])
        => /\ resp'[r].status = 404
           /\ pc'[r] = "done"
           /\ table' = table
      ]_vars

\* a correction was answered 404 while the table held rows
NotFoundBesideRows ==
    \E r \in Reqs :
        /\ handler[r] = "update_score" /\ pc[r] = "done" /\ resp[r].status = 404
        /\ Len(table) >= 1

\* the columns a correction's payload names, and the derived total
NamedColumns(body) ==
    {SCORE_FIELDS[n] : n \in DOMAIN body \cap DOMAIN SCORE_FIELDS} \cup {"score_total"}

\* C11: the commit of a correction changes, in the row it addresses, only the
\* score columns its payload names and the total; every other column of that
\* row (id, filename, sample_id, serial_number, the absent dimensions) and
\* every other row stay as they were, and no row is added or removed.
CorrectionWritesOnlyNamedFields ==
    [][\A r \in Reqs :
        (pc[r] = "commit" /\ pc'[r] = "refresh")
        => /\ Len(table') = Len(table)
           /\ \A i \in 1..Len(table) :
                /\ table'[i].id = table[i].id
                /\ table[i].id # db_id[r] => table'[i] = table[i]
                /\ \A c \in DOMAIN table[i] \ NamedColumns(payload[r]) :
                        table'[i][c] = table[i][c]
      ]_vars

\* a correction that names Fibrosis alone is committed beside a second row:
\* its row holds the new Fibrosis next to a dimension it did not name
CorrectedOneFieldBesideOtherRow ==
    \E r \in Reqs :
        /\ handler[r] = "update_score" /\ pc[r] \in {"refresh", "done"}
        /\ resp[r].status \in {0, 200}
        /\ DOMAIN payload[r] = {"Fibrosis"}
        /\ Len(table) = 2
        /\ LET row == FirstById(table, db_id[r])
           IN  /\ row.score_fibrosis = payload[r]["Fibrosis"]
               /\ row.score_architecture # None
               /\ row.score_fibrosis # row.score_architecture

\* C12: with requests served one at a time, a correction that found its row
\* answers 200 with status "updated" and a new_total that is the sum of the
\* row's four dimension values after the update (a dimension without a value
\* counts as 0), which is also the total stored in the row; a row scored
\* {1, 1, 1, 1} corrected with Fibrosis 3.5 answers 6.5.
CorrectionReturnsNewTotal ==
    [][\A r \in Reqs :
        (pc[r] = "refresh" /\ pc'[r] = "done")
        => LET row  == FirstById(table', db_id[r])
               body == resp'[r].body
           IN  /\ resp'[r].status = 200
               /\ DOMAIN body = {"status", "new_total"}
               /\ body.status = "updated"
               /\ body.new_total = row.score_total
               /\ body.new_total =
                    Some(OrZero(row.score_architecture) + OrZero(row.score_atrophy)
                         + OrZero(row.score_complexes) + OrZero(row.score_fibrosis))
               /\ \A n \in DOMAIN payload[r] : row[SCORE_FIELDS[n]] = payload[r][n]
               /\ (/\ DOMAIN payload[r] = {"Fibrosis"}
                   /\ payload[r]["Fibrosis"] = Some(3500)
                   /\ row.score_architecture = Some(1000)
                   /\ row.score_atrophy = Some(1000)
                   /\ row.score_complexes = Some(1000))
                  => body.new_total = Some(6500)
      ]_vars

\* a row scored {1, 1, 1, 1} was corrected with Fibrosis 3.5 and the
\* correction was answered with new_total 6.5
CorrectedToSixAndAHalf ==
    \E r \in Reqs :
        /\ handler[r] = "update_score" /\ pc[r] = "done" /\ resp[r].status = 200
        /\ payload[r] = [n \in {"Fibrosis"} |-> Some(3500)]
        /\ resp[r].body.new_total = Some(6500)
        /\ \E u \in UploadsOk :
            /\ u < r
            /\ resp[u].body.db_id = db_id[r]
            /\ resp[u].body.scores["Total"] = Some(4000)

\* "S-3602-10X_Image001_ch00.tif"
Str_Scenario3602 ==
    <<"S","-","3","6","0","2","-","1","0","X","_","I","m","a","g","e","0","0",
      "1","_","c","h","0","0",".","t","i","f">>

\* "S-4500-10X_Image0123_ch00.tif"
Str_Scenario4500 ==
    <<"S","-","4","5","0","0","-","1","0","X","_","I","m","a","g","e","0","1",
      "2","3","_","c","h","0","0",".","t","i","f">>

\* "weird_filename.tif"
Str_weird_filename ==
    <<"w","e","i","r","d","_","f","i","l","e","n","a","m","e",".","t","i",
      "f">>

\* C13: the parsing returns a value for every filename; sample_id is the
\* filename up to its second "-" (the whole filename when it has one "-"),
\* and UNKNOWN without a "-"; the suffix is the last two digits of the digit
\* run of the first "image" (any letter case) that a digit follows, that
\* digit after "0" when the run is one digit, and "00" without such a match;
\* serial_number is sample_id, "-", suffix. The three filenames of the
\* scenarios give S-3602 / S-3602-01, S-4500 / S-4500-23, UNKNOWN / UNKNOWN-00.
IdentityResolution ==
    parse_output # NoMetadata =>
    LET f       == parse_input
        sid     == parse_output.sample_id
        ser     == parse_output.serial_number
        suffix  == SubSeq(ser, Len(ser) - 1, Len(ser))
        dashes  == {i \in 1..Len(f) : f[i] = "-"}
        \* "image" at i, followed by the digits up to k and no further
        IsMatch(i, k) ==
            /\ i + 5 <= k /\ k <= Len(f)
            /\ \A j \in 0..4 : LowerChar(f[i + j]) = <<"i","m","a","g","e">>[j + 1]
            /\ \A j \in (i + 5)..k : f[j] \in Digits
            /\ k < Len(f) => f[k + 1] \notin Digits
        matches == {m \in (1..Len(f)) \X (1..Len(f)) : IsMatch(m[1], m[2])}
    IN  /\ DOMAIN parse_output = {"sample_id", "serial_number"}
        /\ dashes = {} => sid = Str_UNKNOWN
        /\ dashes # {} =>
            /\ Len(sid) <= Len(f) /\ SubSeq(f, 1, Len(sid)) = sid
            /\ Cardinality({i \in 1..Len(sid) : sid[i] = "-"}) = 1
            /\ Len(sid) = Len(f) \/ f[Len(sid) + 1] = "-"
        /\ Len(ser) = Len(sid) + 3
        /\ ser = sid \o <<"-">> \o suffix
        /\ matches = {} => suffix = <<"0","0">>
        /\ \A m \in matches :
            (\A n \in matches : m[1] <= n[1])
            => LET run == SubSeq(f, m[1] + 5, m[2])
               IN  IF Len(run) >= 2
                   THEN suffix = <<run[Len(run) - 1], run[Len(run)]>>
                   ELSE suffix = <<"0", run[1]>>
        /\ f = Str_Scenario3602 =>
            /\ sid = <<"S","-","3","6","0","2">>
            /\ ser = <<"S","-","3","6","0","2","-","0","1">>
        /\ f = Str_Scenario4500 =>
            /\ sid = <<"S","-","4","5","0","0">>
            /\ ser = <<"S","-","4","5","0","0","-","2","3">>
        /\ f = Str_weird_filename =>
            /\ sid = Str_UNKNOWN
            /\ ser = Str_UNKNOWN \o <<"-","0","0">>

\* "S-4500-10X_Image0123_ch00.tif" was parsed: the last two digits of a
\* four-digit run, under the sample S-4500
ParsedFourDigitRun ==
    /\ parse_input = Str_Scenario4500
    /\ parse_output # NoMetadata
    /\ parse_output.serial_number = <<"S","-","4","5","0","0","-","2","3">>

\* C14: two answered uploads of different filenames that resolve to one
\* serial_number are served from two records: each response names the row
\* stored under its own filename, the model ran for each filename, and each
\* row not corrected since holds scores the model gave for its own filename.
SerialCollisionKeepsTwoRecords ==
    \A r1, r2 \in UploadsOk :
        (/\ filename[r1] # filename[r2]
         /\ resp[r1].body.serial_number = resp[r2].body.serial_number)
        => /\ resp[r1].body.db_id # resp[r2].body.db_id
           /\ \A r \in {r1, r2} :
                /\ oracle_calls[filename[r]] >= 1
                /\ resp[r].body.filename = filename[r]
                /\ \E row \in Rows :
                    /\ row.id = resp[r].body.db_id
                    /\ row.filename = filename[r]
                    /\ row.serial_number = resp[r].body.serial_number
                    /\ row.id \notin DOMAIN corrected
                       => \E q \in Reqs :
                            /\ filename[q] = filename[r]
                            /\ result[q] # NoResult
                            /\ \A c \in ScoreColumns \cup {"score_total"} :
                                row[c] = InsertValues(result[q])[c]

\* Image001 and Image101 of sample S-1 were uploaded one after the other, the
\* second after the first was stored: two rows with one serial number and
\* different scores
TwoFilenamesOneSerial ==
    \E r1, r2 \in UploadsOk :
        /\ filename[r1] = File_Image001 /\ filename[r2] = File_Image101
        /\ resp[r1].body.serial_number = resp[r2].body.serial_number
        /\ existing_record[r2] = NotFound
        /\ Len(table) = 2
        /\ table[1].serial_number = table[2].serial_number
        /\ table[1].filename = File_Image001
        /\ RowScores(table[1]) # RowScores(table[2])

\* C15: the step that answers an upload with 200, on a hit and on a miss
\* alike, returns the fields status, filename, serial_number, sample_id,
\* scores (the four dimensions and Total), display_url and db_id, and db_id is
\* the id of the row stored under the upload's filename, a row that is in the
\* table before the response is produced.
UniformUploadResponse ==
    [][\A r \in Reqs :
        (/\ pc[r] # "done" /\ pc'[r] = "done"
         /\ handler'[r] = "upload_image" /\ resp'[r].status = 200)
        => LET body == resp'[r].body
           IN  /\ DOMAIN body = {"status", "filename", "serial_number",
                                 "sample_id", "scores", "display_url", "db_id"}
               /\ DOMAIN body.scores = DOMAIN SCORE_FIELDS \cup {"Total"}
               /\ body.status = "success"
               /\ body.filename = filename[r]
               /\ \E i \in 1..Len(table) :
                    /\ table[i].filename = filename[r]
                    /\ table[i].id = body.db_id
                    /\ table'[i].filename = filename[r]
                    /\ table'[i].id = body.db_id
      ]_vars

\* a miss and a later hit of one filename were both answered, with one db_id
HitAndMissAnswered ==
    \E r1, r2 \in UploadsOk :
        /\ filename[r1] = filename[r2]
        /\ existing_record[r1] = NotFound /\ result[r1] # NoResult
        /\ existing_record[r2] # NotFound /\ result[r2] = NoResult
        /\ resp[r1].body.db_id = resp[r2].body.db_id
        /\ DOMAIN resp[r1].body = DOMAIN resp[r2].body

\* uploads that were answered with status 500
UploadsFailed ==
    {r \in Reqs : handler[r] = "upload_image" /\ pc[r] = "done" /\ resp[r].status = 500}

\* C16 as stated: an upload answered 500 has written nothing: it inserted no
\* record for its filename and wrote nothing to a record it found.
FailedUploadLeftNoRecord ==
    \A r \in UploadsFailed :
        ~\E row \in Rows : row.id \in written[r]

\* C16 as amended: an upload is answered 500 only after an exception; when the
\* exception came before the commit of its insert (decoding, the model, the
\* lookup, the insert itself, or anything on a hit) the upload has written
\* nothing; when it came from the re-read after the commit, what the upload
\* wrote is the one complete row of its filename. Every stored row is the
\* complete row a committed insert of an upload that ran the model wrote.
FailedUploadWroteNothingUncommitted ==
    /\ \A r \in UploadsFailed :
        /\ fault[r] # NoFault
        /\ fault[r].at # "reread" => written[r] = {}
        /\ existing_record[r] # NotFound => written[r] = {}
        /\ \A id \in written[r] :
            \E row \in Rows :
                /\ row.id = id
                /\ row.filename = filename[r]
                /\ row.serial_number = result[r].serial_number
    /\ \A row \in Rows :
        \E q \in Reqs :
            /\ handler[q] = "upload_image" /\ result[q] # NoResult
            /\ row.id \in written[q]
            /\ row.filename = filename[q]
            /\ row.serial_number = result[q].serial_number
            /\ row.sample_id = result[q].sample_id
            /\ row.id \notin DOMAIN corrected
               => \A c \in ScoreColumns \cup {"score_total"} :
                    row[c] = InsertValues(result[q])[c] /\ row[c] # None

\* one upload failed at its insert and left no row for its filename, another
\* failed at the re-read after its insert was committed
FailedAtInsertAndAtReread ==
    /\ \E r \in UploadsFailed :
        /\ fault[r] = Fault("insert", "store")
        /\ \A row \in Rows : row.filename # filename[r]
    /\ \E r \in UploadsFailed :
        /\ fault[r] = Fault("reread", "store")
        /\ written[r] # {}

\* C17: no step removes a row or changes the id or the filename of a stored
\* row; a step adds at most one row, and the row it adds is the insert of an
\* upload that ran the model, under a filename and an id no stored row has.
RecordsOnlyGrow ==
    [][/\ Len(table') >= Len(table)
       /\ Len(table') <= Len(table) + 1
       /\ \A i \in 1..Len(table) :
            /\ table'[i].id = table[i].id
            /\ table'[i].filename = table[i].filename
       /\ Len(table') = Len(table) + 1
          => LET new == table'[Len(table')]
             IN  /\ \A i \in 1..Len(table) :
                        table[i].filename # new.filename /\ table[i].id # new.id
                 /\ \E r \in Reqs :
                        /\ pc[r] = "insert" /\ pc'[r] = "reread"
                        /\ result[r] # NoResult
                        /\ filename[r] = new.filename
      ]_vars

\* two rows are stored, and two uploads of the first row's filename both
\* executed their insert
TwoRowsAfterLostInsert ==
    /\ Len(table) = 2
    /\ \E r1, r2 \in Reqs :
        /\ r1 # r2
        /\ filename[r1] = table[1].filename /\ filename[r2] = table[1].filename
        /\ result[r1] # NoResult /\ pc[r1] = "done" /\ fault[r1] = NoFault
        /\ result[r2] # NoResult /\ pc[r2] = "done" /\ fault[r2] = NoFault

\* C18: a health check answers 200 with status healthy exactly when its query
\* reached the store and the model is loaded, and 503 otherwise, the handle
\* being None or the attribute missing included; it writes nothing.
HealthyIffStoreAndModel ==
    [][\A r \in Reqs :
        (pc[r] = "idle" /\ handler'[r] = "health_check")
        => /\ pc'[r] = "done"
           /\ resp'[r].status \in {200, 503}
           /\ resp'[r].status = 200 <=> (fault'[r] = NoFault /\ model_loaded)
           /\ resp'[r].status = 200 => resp'[r].body.status = "healthy"
           /\ fault'[r] \in {NoFault, Fault("ping", "store")}
           /\ table' = table
           /\ \A store_ok \in BOOLEAN :
                HealthCheckResponse(store_ok, "missing").status = 503
      ]_vars

\* health checks were answered 200, 503 with the store reachable and no
\* model, and 503 with the store unreachable
HealthAnsweredEachWay ==
    /\ \E r \in Reqs : handler[r] = "health_check" /\ resp[r].status = 200
    /\ \E r \in Reqs :
        handler[r] = "health_check" /\ resp[r].status = 503 /\ fault[r] = NoFault
    /\ \E r \in Reqs :
        handler[r] = "health_check" /\ resp[r].status = 503 /\ fault[r] # NoFault

\* C19: when exactly two corrections of one row, naming different dimensions,
\* have committed, in whatever order their reads and commits interleaved, the
\* row holds the values both named and its total is the sum of its four
\* stored dimensions.
InterleavedCorrectionsKeepTotal ==
    \A r1, r2 \in Reqs :
        (/\ r1 # r2
         /\ \A r \in {r1, r2} :
                /\ handler[r] = "update_score"
                /\ pc[r] \in {"refresh", "done"}
                /\ resp[r].status \in {0, 200}
         /\ db_id[r1] = db_id[r2]
         /\ DOMAIN payload[r1] \cap DOMAIN payload[r2] = {}
         /\ \A q \in Reqs \ {r1, r2} :
                ~(handler[q] = "update_score" /\ db_id[q] = db_id[r1]))
        => LET row == FirstById(table, db_id[r1])
           IN  /\ \A r \in {r1, r2} :
                    \A n \in DOMAIN payload[r] : row[SCORE_FIELDS[n]] = payload[r][n]
               /\ row.score_total =
                    Some(OrZero(row.score_architecture) + OrZero(row.score_atrophy)
                         + OrZero(row.score_complexes) + OrZero(row.score_fibrosis))

\* C20: no step of an upload changes a score column or the total of a stored
\* row, whatever other requests do in between: the touch of a hit changes the
\* timestamp of its row and nothing else, and an insert that meets a row with
\* its filename leaves the table as it is.
UploadsNeverWriteScores ==
    [][\A r \in Reqs :
        (handler'[r] = "upload_image" /\ pc'[r] # pc[r])
        => /\ \A i \in 1..Len(table) :
                /\ RowScores(table'[i]) = RowScores(table[i])
                /\ \A c \in DOMAIN table[i] \ {"timestamp"} :
                        table'[i][c] = table[i][c]
           /\ (/\ pc[r] = "insert"
               /\ \E i \in 1..Len(table) : table[i].filename = filename[r])
              => table' = table
      ]_vars

\* a hit loaded its row, a correction of that row was then committed and
\* refreshed, and the hit's touch came last: the row holds the corrected
\* scores under a later timestamp
TouchAfterConcurrentCorrection ==
    \E r \in UploadsOk, u \in Reqs :
        /\ existing_record[r] # NotFound /\ written[r] # {}
        /\ handler[u] = "update_score" /\ pc[u] = "done" /\ resp[u].status = 200
        /\ db_id[u] = existing_record[r].id
        /\ RowScores(record[u]) # RowScores(existing_record[r])
        /\ record[u].timestamp = existing_record[r].timestamp
        /\ LET row == FirstById(table, db_id[u])
           IN  /\ row.timestamp > record[u].timestamp
               /\ RowScores(row) = RowScores(record[u])

\* C21: a row written by an upload that ran the model holds, until a correction
\* is committed to it, for each of the four scores a multiple of a quarter
\* within a half quarter of the model's output times the maximum of the score
\* clamped into [0, maximum], and as its total the sum of the four to two
\* decimals; and the 200 response of that upload carries the values of the row.
PersistedScoresQuantized ==
    \A r \in Reqs : \A id \in written[r] :
        (handler[r] = "upload_image" /\ existing_record[r] = NotFound
            /\ id \notin DOMAIN corrected)
        => LET row == FirstById(table, id)
               col(i) == row[SCORE_FIELDS[FieldNames[i]]]
               \* output * maximum and the clamped product, in millionths
               scaled(i) == model_output[r][i] * MAX_SCORES[i]
               clamped(i) == IF scaled(i) < 0 THEN 0
                             ELSE IF scaled(i) > MAX_SCORES[i] * 1000
                                  THEN MAX_SCORES[i] * 1000
                                  ELSE scaled(i)
               sum == col(1)[1] + col(2)[1] + col(3)[1] + col(4)[1]
           IN  /\ \A i \in 1..NUM_CLASSES :
                    /\ col(i) # None
                    /\ col(i)[1] % 250 = 0
                    /\ col(i)[1] * 1000 - clamped(i) <= 125000
                    /\ clamped(i) - col(i)[1] * 1000 <= 125000
               /\ row.score_total # None
               /\ row.score_total[1] % 10 = 0
               /\ row.score_total[1] - sum <= 5
               /\ sum - row.score_total[1] <= 5
               /\ r \in UploadsOk
                  => /\ \A n \in DOMAIN SCORE_FIELDS :
                            resp[r].body.scores[n] = row[SCORE_FIELDS[n]]
                     /\ resp[r].body.scores["Total"] = row.score_total

\* an upload answered 200 after its model output was clamped from below in
\* one score and from above in another and fell half way between two quarters
\* in a third: the row holds 0, the maximum 3, and 1 for 0.375 * 3 = 1.125
ClampedAndTiedOutputStored ==
    \E r \in UploadsOk : \E id \in written[r] :
        /\ existing_record[r] = NotFound
        /\ model_output[r] = <<-500, 1700, 375, -500>>
        /\ LET row == FirstById(table, id)
           IN  /\ row.score_architecture = Some(0)
               /\ row.score_atrophy = Some(3000)
               /\ row.score_complexes = Some(1000)
               /\ row.score_total = Some(4000)
               /\ resp[r].body.scores["Total"] = Some(4000)

\* C22: every upload answered 200, whether its lookup found a row or not,
\* carries the serial number and the sample id parsed from the filename it was
\* sent under; every stored row carries the ones parsed from its own filename;
\* so the identity a hit recomputes is the identity of the row it loaded and of
\* the row stored under that filename.
IdentityFollowsFilename ==
    /\ \A r \in UploadsOk :
        /\ resp[r].body.serial_number = ParseMetadata(filename[r]).serial_number
        /\ resp[r].body.sample_id = ParseMetadata(filename[r]).sample_id
        /\ existing_record[r] # NotFound
           => LET row == FirstByFilename(table, filename[r])
              IN  /\ resp[r].body.serial_number = existing_record[r].serial_number
                  /\ resp[r].body.sample_id = existing_record[r].sample_id
                  /\ resp[r].body.serial_number = row.serial_number
                  /\ resp[r].body.sample_id = row.sample_id
    /\ \A i \in 1..Len(table) :
        /\ table[i].serial_number = ParseMetadata(table[i].filename).serial_number
        /\ table[i].sample_id = ParseMetadata(table[i].filename).sample_id

\* "S-1-image101.TIFF" was uploaded twice and answered 200 both times, first
\* after inference and then from its row: both responses and the row carry
\* serial number "S-1-01" and sample id "S-1"
MissThenHitSameIdentity ==
    \E r1 \in UploadsOk, r2 \in UploadsOk :
        /\ filename[r1] = File_Image101 /\ filename[r2] = File_Image101
        /\ existing_record[r1] = NotFound /\ existing_record[r2] # NotFound
        /\ resp[r1].body.serial_number = <<"S", "-", "1", "-", "0", "1">>
        /\ resp[r2].body.serial_number = <<"S", "-", "1", "-", "0", "1">>
        /\ resp[r1].body.sample_id = <<"S", "-", "1">>
        /\ resp[r2].body.sample_id = <<"S", "-", "1">>
        /\ FirstByFilename(table, File_Image101).serial_number
                = <<"S", "-", "1", "-", "0", "1">>

====
